---- MODULE Spec2Model ----
(***************************************************************************)
(* Task orchestration engine of acontext_core.                             *)
(*                                                                         *)
(*   service/controller/message.py  process_session_pending_message        *)
(*   llm/agent/task.py              task_agent_curd                        *)
(*   llm/tool/task_tools.py         TASK_TOOLS and the appliers behind it  *)
(*   infra/s3.py                    S3Client                               *)
(*                                                                         *)
(* Each invocation of process_session_pending_message is a process p that  *)
(* walks through the awaits of the coroutine; the relational store is the  *)
(* shared state.  The data layer (service/data), the session context       *)
(* manager (infra/db) and the completion call (llm/complete) are outside   *)
(* the sources at hand and are modelled from the specification, and so are *)
(* the appliers of insert_task, update_task and the two append tools.      *)
(***************************************************************************)
EXTENDS Integers, Sequences, FiniteSets, TLC

\* ---------------------------------------------------------------- bounds
MaxMsgs == 2
MaxRuns == 3
MaxIterInput == 3

\* llm/agent/task.py:36   max_iterations=3
DefaultMaxIterations == 3

\* cap of the model-call counter (only a loop that stops counting reaches it)
MaxCalls == MaxIterInput + 1

Procs == {"p1", "p2"}
Sessions == {"s1", "s2"}
NoSession == "none"

VARIABLES
    msgs,                 \* the message table: msgs[i] = [sid, st, link], i = creation order
    tasks,                \* the task table: tasks[s] = ordered task list of session s
    runs,                 \* number of process(session_id) signals delivered so far
    lastRun,              \* per session: its latest finished invocation succeeded, nothing arrived since
    pc,                   \* position of each invocation
    session_id,           \* message.py:10
    messages,             \* message.py:15   ids of the fetched pending messages
    pending_message_ids,  \* message.py:12
    previous_messages,    \* message.py:26
    tx,                   \* rows written by the invocation's open transaction
    r,                    \* message.py:14,23,39 / task.py:39,55  latest Result
    max_iterations,       \* task.py:36
    already_iterations,   \* task.py:53
    script,               \* what the completion service answers, call by call
    llm_calls,            \* number of llm_complete calls of this run
    llm_return,           \* task.py:63   tool_calls of the latest response
    stop,                 \* why the while loop of task_agent_curd was left
    exc,                  \* the exception that reached message.py:40
    outcome,              \* how the invocation ended: returned / raised
    rerun,                \* the invocation found nothing pending right after a successful run
    tool_call,            \* the tool call applied last: [name, session, message_ids]
    tool_result,          \* the Result of its applier: the error kind, "none" on success
    s3_objects,           \* keys of the objects the bucket holds
    s3_call,              \* the S3Client method called last: [op, key, answer]
    s3_result,            \* how that call ended: returned / returned_none / ClientError / Exception
    llm_args,             \* task.py:44-62  the packed sections, json_tools, and whether they were sent
    blocks_call,          \* the AsyncBlocksAPI method called last: [op, a, b]
    blocks_result,        \* how that call ended: returned / ValueError / APIError
    requests,             \* the requests handed to the requester so far
    s3_client,            \* s3.py:95   self._client: 0 for None, else the number of the client
    s3_client_lock,       \* s3.py:96   holder of self._client_lock, or "free"
    gc_pc,                \* position of each caller of _get_client
    gc_ret,               \* what each caller's latest _get_client call returned, and by which return
    s3_created,           \* number of clients created so far
    s3_session,           \* s3.py:94   self._session is set (FALSE once close() cleared it)
    db_open               \* message.py:13   number of DB session contexts the invocation is inside

ledger == <<msgs, tasks>>
ctl == <<runs, lastRun>>
claimVars == <<session_id, messages, pending_message_ids, previous_messages, tx, db_open>>
agentVars == <<max_iterations, already_iterations, script, llm_calls, llm_return, stop,
              llm_args>>
endVars == <<exc, outcome, rerun>>
toolVars == <<tool_call, tool_result>>
s3Vars == <<s3_objects, s3_call, s3_result>>
blockVars == <<blocks_call, blocks_result, requests>>
clientVars == <<s3_client, s3_client_lock, gc_pc, gc_ret, s3_created, s3_session>>
vars == <<msgs, tasks, runs, lastRun, pc, session_id, messages, pending_message_ids,
          previous_messages, tx, r, max_iterations, already_iterations, script,
          llm_calls, llm_return, stop, exc, outcome, rerun,
          tool_call, tool_result, s3_objects, s3_call, s3_result, llm_args,
          blocks_call, blocks_result, requests,
          s3_client, s3_client_lock, gc_pc, gc_ret, s3_created, s3_session, db_open>>

\* ---------------------------------------------------------------- helpers
Range(s) == {s[i] : i \in 1..Len(s)}

\* link: the rows of the task-message / planning link table that name the message
Msg(s, st) == [sid |-> s, st |-> st, link |-> {}]

Ids == [i \in 1..Len(msgs) |-> i]

\* the ledger as the tool appliers see it
Ledger == [tasks |-> tasks, msgs |-> msgs]

\* service/data/message.py fetch_session_messages(session, session_id, status):
\* the session's messages in that status, ordered by creation time
FetchSessionMessages(s, status) ==
    SelectSeq(Ids, LAMBDA i : msgs[i].sid = s /\ msgs[i].st = status)

\* service/data/message.py fetch_previous_messages_by_datetime(session,
\* session_id, created_at, limit): the latest `limit` messages of the session
\* created before created_at, oldest first
FetchPreviousMessages(s, first, limit) ==
    LET before == SelectSeq(Ids, LAMBDA i : msgs[i].sid = s /\ i < first)
        n == Len(before)
    IN  IF n <= limit THEN before ELSE SubSeq(before, n - limit + 1, n)

\* service/data/message.py rollback_message_status_to_pending(session, ids)
RollbackMessageStatusToPending(table, ids) ==
    [i \in 1..Len(table) |->
        IF i \in Range(ids) THEN [table[i] EXCEPT !.st = "pending"] ELSE table[i]]

\* message.py:20   TaskStatus.RUNNING.value
ClaimStatusProcessed == "processed"
ClaimStatus == "running"

\* infra/db get_session_context: leaving the block commits the rows the
\* transaction wrote (message.py:19-21 wrote ClaimStatus into them)
CommitTx(table, rows) ==
    [i \in 1..Len(table) |->
        IF i \in rows THEN [table[i] EXCEPT !.st = ClaimStatus] ELSE table[i]]

\* rows an invocation holds locked: it selected them for update (message.py:14)
\* and its transaction (message.py:13-37) is still open
Locked(q) ==
    IF pc[q] \in {"mark", "fetch_prev", "commit"} THEN Range(messages[q]) ELSE {}

\* message.py:45   the ids handed to rollback_message_status_to_pending
RollbackIdsNone(p) == <<>>
RollbackIdsAllRunning(p) == FetchSessionMessages(session_id[p], "running")
RollbackIdsWholeSession(p) == SelectSeq(Ids, LAMBDA i : msgs[i].sid = session_id[p])
RollbackIds(p) == pending_message_ids[p]

\* message.py:41-45   the transaction of the except block writes message rows
\* only: the task table when it has committed
TasksAfterRollbackCleared(p) == [tasks EXCEPT ![session_id[p]] = <<>>]
TasksAfterRollback(p) == tasks

\* task.py:25-28   pack_current_message_with_ids: the id shown for a message is
\* its position in enumerate(messages)
PackCurrentMessageWithIds(batch) ==
    [k \in 1..Len(batch) |-> [id |-> k - 1, message |-> batch[k]]]

\* message.py:24   messages[0].created_at: the window ends before the first
\* message of the batch
WindowBeforeLast(batch) == batch[Len(batch)]
WindowBefore(batch) == batch[1]

\* message.py:24   limit=1
WindowLimit == 1

\* message.py:13   async with DB_CLIENT.get_session_context(): entering the block
DepthAfterEnter(n) == n + 1

\* message.py:13-37   leaving the block, by falling off its end, by the return
\* of line 18 or 29, or by an exception, ends the session context
DepthAfterExitHeld(n) == n
DepthAfterExit(n) == n - 1

\* message.py:16-18   if eil: return, which leaves the async with block
AfterFetchErrorGoesOn == "mark"
AfterFetchError == "commit"

\* message.py:46   raise e
ExceptOutcomeReturned == "returned"
ExceptOutcome == "raised"

\* task.py:54   while already_iterations < max_iterations
LoopCondInclusive(p) == already_iterations[p] <= max_iterations[p]
LoopCond(p) == already_iterations[p] < max_iterations[p]

\* ------------------------------------------------------- context packing
\* task.py:16-18   pack_task_section: one line per task, in list order
PackTaskSection(ts) == [i \in 1..Len(ts) |-> <<"-", ts[i]>>]

\* task.py:21-22   pack_previous_messages_section: one line per message
PackPreviousMessagesSection(ms) == [i \in 1..Len(ms) |-> <<"message", ms[i]>>]

\* prompt/task.py:77-91   TaskPrompt.pack_task_input: the three sections under
\* their headings
PackTaskInputNumbered(previous_section, current_message_with_ids, current_tasks) ==
    [tasks |-> current_tasks, previous |-> previous_section,
     current |-> <<runs>> \o current_message_with_ids]
PackTaskInput(previous_section, current_message_with_ids, current_tasks) ==
    [tasks |-> current_tasks, previous |-> previous_section,
     current |-> current_message_with_ids]

\* prompt/task.py:97-113   TaskPrompt.tool_schema: the schemas of five entries
\* of TASK_TOOLS
ToolSchemaNoFinish ==
    << "insert_task", "update_task", "append_messages_to_planning_section",
       "append_messages_to_task" >>
ToolSchema ==
    << "insert_task", "update_task", "append_messages_to_planning_section",
       "append_messages_to_task", "finish" >>

NoLLMArgs == [prompt |-> PackTaskInput(<<>>, <<>>, <<>>), tools |-> <<>>, sent |-> FALSE]

\* task.py:44-58   the sections and json_tools task_agent_curd computes before
\* its loop, from the tasks it fetched and the two message lists it was given,
\* joined by pack_task_input for every call
Packed(p) ==
    [prompt |-> PackTaskInput(PackPreviousMessagesSection(previous_messages[p]),
                              PackCurrentMessageWithIds(messages[p]),
                              PackTaskSection(tasks[session_id[p]])),
     tools |-> ToolSchema,
     sent |-> FALSE]

\* ------------------------------------------------- the completion service
RNone == [kind |-> "ok", tool_calls |-> <<>>]
RTools == [kind |-> "ok", tool_calls |-> <<"insert_task">>]
RFinish == [kind |-> "ok",
            tool_calls |-> <<"update_task", "append_messages_to_task", "finish">>]
RError == [kind |-> "error", tool_calls |-> <<>>]
RRaise == [kind |-> "raise", tool_calls |-> <<>>]

\* llm/complete llm_complete, seen from task.py:55-65: per call either a
\* response, an error Result, or an exception
Scripts == { <<RNone>>, <<RFinish>>, <<RError>>, <<RRaise>>,
             <<RTools, RRaise, RFinish>>, <<RTools, RTools, RTools>> }

NoScript == <<>>

ScriptAt(s, k) == s[IF k <= Len(s) THEN k ELSE Len(s)]

\* ------------------------------------------------------------ the Tool Pool
\* llm/tool/task_tools.py:8-18   the keys of TASK_TOOLS
TASK_TOOLS == { "insert_task", "update_task", "append_messages_to_planning_section",
                "append_messages_to_task", "finish" }

Null == "null"

\* the arguments of a tool call (a field the call does not carry is 0, Null or <<>>)
NoArgs == [task_id |-> 0, order |-> 0, status |-> Null, description |-> Null,
           message_ids |-> <<>>]

NoCall == [name |-> "none", session |-> NoSession, message_ids |-> <<>>]

NoErr == "none"

\* llm/tool/task_lib/ctx.py:6-11   TaskCtx (db_session is the ledger L handed
\* to the appliers)
TaskCtx(s, task_ids_index, message_ids_index) ==
    [session_id |-> s, task_ids_index |-> task_ids_index,
     message_ids_index |-> message_ids_index]

\* the Tool Invocation Context of a round: the ids of the session's tasks and
\* the durable ids of the claimed batch, in batch order
BuildCtx(L, s, batch) ==
    TaskCtx(s, [i \in 1..Len(L.tasks[s]) |-> L.tasks[s][i].id], batch)

\* a task row
Task(id, order, status, description) ==
    [id |-> id, order |-> order, status |-> status, description |-> description]

\* the id the store gives to the next task row
NewTaskId(tt) ==
    1 + Cardinality(UNION { {tt[s][i].id : i \in 1..Len(tt[s])} : s \in Sessions })

\* rows of the link table
PlanningLink == [kind |-> "planning", task |-> 0]
TaskLink(t) == [kind |-> "task", task |-> t]

Rejected(L, kind) == [err |-> kind, tasks |-> L.tasks, msgs |-> L.msgs]

\* insert_task(description, order): a legal position is 1..current_length+1
LegalOrderAnyPositive(ts, order) == order >= 1
LegalOrder(ts, order) == order \in 1..(Len(ts) + 1)

\* insert_task: the renumbering of the tasks already there
RenumberStrictlyLater(ts, order) ==
    [i \in 1..Len(ts) |-> IF ts[i].order > order THEN [ts[i] EXCEPT !.order = @ + 1] ELSE ts[i]]
Renumber(ts, order) ==
    [i \in 1..Len(ts) |-> IF ts[i].order >= order THEN [ts[i] EXCEPT !.order = @ + 1] ELSE ts[i]]

InsertTask(L, ctx, a) ==
    LET ts == L.tasks[ctx.session_id]
    IN  IF LegalOrder(ts, a.order)
        THEN [err |-> NoErr, msgs |-> L.msgs,
              tasks |-> [L.tasks EXCEPT ![ctx.session_id] =
                            Append(Renumber(ts, a.order),
                                   Task(NewTaskId(L.tasks), a.order, "pending", a.description))]]
        ELSE Rejected(L, "InvalidOrder")

\* update_task(task_id, status?, description?): the row after the update
UpdatedRowStatusAlways(row, a) ==
    [row EXCEPT !.status = a.status,
                !.description = IF a.description = Null THEN @ ELSE a.description]
UpdatedRow(row, a) ==
    [row EXCEPT !.status = IF a.status = Null THEN @ ELSE a.status,
                !.description = IF a.description = Null THEN @ ELSE a.description]

ValidTask(ctx, task_id) == task_id \in Range(ctx.task_ids_index)

UpdateTask(L, ctx, a) ==
    LET ts == L.tasks[ctx.session_id]
    IN  IF ValidTask(ctx, a.task_id)
        THEN [err |-> NoErr, msgs |-> L.msgs,
              tasks |-> [L.tasks EXCEPT ![ctx.session_id] =
                            [i \in 1..Len(ts) |->
                                IF ts[i].id = a.task_id THEN UpdatedRow(ts[i], a) ELSE ts[i]]]]
        ELSE Rejected(L, "InvalidReference")

\* a round-local message index i names the (i+1)-th entry of the message index
ValidMessage(ctx, i) == i \in 0..(Len(ctx.message_ids_index) - 1)

DurableId(ctx, i) == ctx.message_ids_index[i + 1]

\* the "at most one link" check of the append tools
LinkableAlways(L, ctx, i) == ValidMessage(ctx, i)
Linkable(L, ctx, i) == ValidMessage(ctx, i) /\ L.msgs[DurableId(ctx, i)].link = {}

LinkMessages(L, ctx, message_ids, row) ==
    LET named == {DurableId(ctx, message_ids[k]) : k \in 1..Len(message_ids)}
    IN  [i \in 1..Len(L.msgs) |->
            IF i \in named THEN [L.msgs[i] EXCEPT !.link = @ \cup {row}] ELSE L.msgs[i]]

AppendMessagesToTask(L, ctx, a) ==
    IF /\ ValidTask(ctx, a.task_id)
       /\ \A k \in 1..Len(a.message_ids) : Linkable(L, ctx, a.message_ids[k])
    THEN [err |-> NoErr, tasks |-> L.tasks,
          msgs |-> LinkMessages(L, ctx, a.message_ids, TaskLink(a.task_id))]
    ELSE Rejected(L, "InvalidReference")

AppendMessagesToPlanningSection(L, ctx, a) ==
    IF \A k \in 1..Len(a.message_ids) : Linkable(L, ctx, a.message_ids[k])
    THEN [err |-> NoErr, tasks |-> L.tasks,
          msgs |-> LinkMessages(L, ctx, a.message_ids, PlanningLink)]
    ELSE Rejected(L, "InvalidReference")

\* finish(): llm/tool/task_lib/finish.py:12-24, a schema without parameters
FinishDropsTasks(L, ctx, a) ==
    [err |-> NoErr, tasks |-> [s \in Sessions |-> <<>>], msgs |-> L.msgs]
Finish(L, ctx, a) == [err |-> NoErr, tasks |-> L.tasks, msgs |-> L.msgs]

\* TASK_TOOLS[name] applied to the arguments
ApplyTool(L, ctx, name, a) ==
    CASE name = "insert_task" -> InsertTask(L, ctx, a)
      [] name = "update_task" -> UpdateTask(L, ctx, a)
      [] name = "append_messages_to_planning_section" -> AppendMessagesToPlanningSection(L, ctx, a)
      [] name = "append_messages_to_task" -> AppendMessagesToTask(L, ctx, a)
      [] name = "finish" -> Finish(L, ctx, a)

\* the arguments of the calls the completion service returns (RTools,
\* RFinish): a task inserted at the head of the list, task 1 set to running,
\* every message of the batch appended to task 1
ToolCallArgs(name, batch) ==
    CASE name = "insert_task" -> [NoArgs EXCEPT !.order = 1, !.description = "d1"]
      [] name = "update_task" -> [NoArgs EXCEPT !.task_id = 1, !.status = "running"]
      [] name = "append_messages_to_task" ->
             [NoArgs EXCEPT !.task_id = 1, !.message_ids = [k \in 1..Len(batch) |-> k - 1]]
      [] OTHER -> NoArgs

\* the calls of one round applied in the order returned, each against the
\* ledger the calls before it left; a rejected call changes nothing and the
\* calls after it are still applied
RECURSIVE ApplyCalls(_, _, _, _)
ApplyCalls(L, s, batch, calls) ==
    IF calls = <<>> THEN L
    ELSE LET res == ApplyTool(L, BuildCtx(L, s, batch), Head(calls),
                              ToolCallArgs(Head(calls), batch))
         IN  ApplyCalls([tasks |-> res.tasks, msgs |-> res.msgs], s, batch, Tail(calls))

\* ------------------------------------------------------------ infra/s3.py
Keys == {"k1", "k2", "k3"}

NoS3Call == [op |-> "none", key |-> "none", answer |-> "none"]

\* s3.py:31   error_code in ("NoSuchKey", "404")
NotFoundCodes == {"NoSuchKey", "404"}

\* what the awaited client call does (s3.py:195, 245, 279, 310): it answers
\* ("ok"), raises ClientError with an error code, or raises another exception
\* ("unexpected"); a missing object is reported by get_object and head_object,
\* and a store may or may not report it on delete_object
ClientAnswers(op, key) ==
    {"AccessDenied", "unexpected"}
        \cup (IF key \in s3_objects \/ op \in {"put_object", "delete_object"}
              THEN {"ok"} ELSE {})
        \cup (IF key \notin s3_objects /\ op \in {"get_object", "delete_object"}
              THEN {"NoSuchKey"} ELSE {})
        \cup (IF key \notin s3_objects /\ op \in {"head_object", "delete_object"}
              THEN {"404"} ELSE {})

\* the bucket after the client call
ObjectsAfter(op, key, answer) ==
    IF answer # "ok" THEN s3_objects
    ELSE IF op = "put_object" THEN s3_objects \cup {key}
    ELSE IF op = "delete_object" THEN s3_objects \ {key}
    ELSE s3_objects

\* s3.py:16-38   _handle_s3_client_error: TRUE when it returns, FALSE when it
\* raises e
HandleS3ClientErrorReturns(error_code, ignore_not_found) ==
    error_code \in NotFoundCodes /\ ignore_not_found

\* s3.py:286, 319   the ignore_not_found argument of the two handlers
DeleteIgnoreNotFound == TRUE
MetadataIgnoreNotFound == TRUE

\* how a method of S3Client ends, given the answer of its client call: the
\* try / except ClientError / except Exception of s3.py:193-205, 234-256,
\* 277-288, 308-322; a method that falls off its end returns None
MethodResult(answer, ignore_not_found) ==
    IF answer = "ok" THEN "returned"
    ELSE IF answer = "unexpected" THEN "Exception"
    ELSE IF HandleS3ClientErrorReturns(answer, ignore_not_found) THEN "returned_none"
    ELSE "ClientError"

S3Method(method, op, key, ignore_not_found) ==
    /\ \E answer \in ClientAnswers(op, key) :
          /\ s3_objects' = ObjectsAfter(op, key, answer)
          /\ s3_call' = [op |-> method, key |-> key, answer |-> answer]
          /\ s3_result' = MethodResult(answer, ignore_not_found)
    /\ UNCHANGED <<msgs, tasks, runs, lastRun, pc, r>>
    /\ UNCHANGED <<claimVars, agentVars, endVars, toolVars, blockVars, clientVars>>

\* s3.py:176-205
DownloadObject(key) == S3Method("download_object", "get_object", key, FALSE)

\* s3.py:207-256
UploadObject(key) == S3Method("upload_object", "put_object", key, FALSE)

\* s3.py:258-288
DeleteObject(key) == S3Method("delete_object", "delete_object", key, DeleteIgnoreNotFound)

\* s3.py:290-322
GetObjectMetadata(key) ==
    S3Method("get_object_metadata", "head_object", key, MetadataIgnoreNotFound)

InitS3Idle ==
    /\ s3_objects = {}
    /\ s3_call = NoS3Call
    /\ s3_result = "none"

\* --------------------------------------------- S3Client's singleton client
Callers == {"c1", "c2", "c3"}

NoClient == 0
NoReturn == [client |-> NoClient, via |-> "none"]

\* s3.py:105   the first check, made without the lock
FirstCheck == s3_client # NoClient

\* s3.py:110   the second check, made while holding _client_lock
DoubleCheckNever == FALSE
DoubleCheck == s3_client # NoClient

\* s3.py:108-143   what a caller does once it holds _client_lock, up to the
\* await of line 143: return the client another caller created, or start
\* creating one; self._session.create_client raises when close() has cleared
\* the session
UnderLock(c) ==
    IF DoubleCheck
    THEN /\ gc_ret' = [gc_ret EXCEPT ![c] = [client |-> s3_client, via |-> "double_check"]]
         /\ gc_pc' = [gc_pc EXCEPT ![c] = "idle"]
         /\ s3_client_lock' = "free"
    ELSE IF s3_session
    THEN /\ gc_pc' = [gc_pc EXCEPT ![c] = "creating"]
         /\ s3_client_lock' = c
         /\ UNCHANGED gc_ret
    ELSE /\ gc_ret' = [gc_ret EXCEPT ![c] = [client |-> NoClient, via |-> "raised"]]
         /\ gc_pc' = [gc_pc EXCEPT ![c] = "idle"]
         /\ s3_client_lock' = "free"

\* s3.py:104-108   _get_client is called: the first check, then the lock; an
\* asyncio.Lock that is free is acquired without suspending
GetClient(c) ==
    /\ gc_pc[c] = "idle"
    /\ IF FirstCheck
       THEN /\ gc_ret' = [gc_ret EXCEPT ![c] = [client |-> s3_client, via |-> "first_check"]]
            /\ UNCHANGED <<gc_pc, s3_client_lock>>
       ELSE IF s3_client_lock = "free"
       THEN UnderLock(c)
       ELSE /\ gc_pc' = [gc_pc EXCEPT ![c] = "waiting"]
            /\ gc_ret' = [gc_ret EXCEPT ![c] = NoReturn]
            /\ UNCHANGED s3_client_lock
    /\ UNCHANGED <<s3_client, s3_created, s3_session>>
    /\ UNCHANGED <<msgs, tasks, runs, lastRun, pc, r>>
    /\ UNCHANGED <<claimVars, agentVars, endVars, toolVars, s3Vars, blockVars>>

\* s3.py:108   a caller suspended on _client_lock gets it after a release
LockAcquired(c) ==
    /\ gc_pc[c] = "waiting"
    /\ s3_client_lock = "free"
    /\ UnderLock(c)
    /\ UNCHANGED <<s3_client, s3_created, s3_session>>
    /\ UNCHANGED <<msgs, tasks, runs, lastRun, pc, r>>
    /\ UNCHANGED <<claimVars, agentVars, endVars, toolVars, s3Vars, blockVars>>

\* s3.py:143-147   create_client(...).__aenter__() completes: the client is
\* stored, the lock released and the stored client returned
ClientCreated(c) ==
    /\ gc_pc[c] = "creating"
    /\ s3_created' = s3_created + 1
    /\ s3_client' = s3_created + 1
    /\ gc_ret' = [gc_ret EXCEPT ![c] = [client |-> s3_created + 1, via |-> "created"]]
    /\ gc_pc' = [gc_pc EXCEPT ![c] = "idle"]
    /\ s3_client_lock' = "free"
    /\ UNCHANGED s3_session
    /\ UNCHANGED <<msgs, tasks, runs, lastRun, pc, r>>
    /\ UNCHANGED <<claimVars, agentVars, endVars, toolVars, s3Vars, blockVars>>

\* s3.py:143-145   create_client(...).__aenter__() raises: nothing is stored,
\* the async with releases the lock and the caller gets the exception
ClientCreationFails(c) ==
    /\ gc_pc[c] = "creating"
    /\ gc_ret' = [gc_ret EXCEPT ![c] = [client |-> NoClient, via |-> "raised"]]
    /\ gc_pc' = [gc_pc EXCEPT ![c] = "idle"]
    /\ s3_client_lock' = "free"
    /\ UNCHANGED <<s3_client, s3_created, s3_session>>
    /\ UNCHANGED <<msgs, tasks, runs, lastRun, pc, r>>
    /\ UNCHANGED <<claimVars, agentVars, endVars, toolVars, s3Vars, blockVars>>

\* s3.py:364-384   close(): the client, if any, is closed and forgotten, and
\* the session is cleared; it does not take _client_lock
Close ==
    /\ s3_client' = NoClient
    /\ s3_session' = FALSE
    /\ UNCHANGED <<s3_client_lock, gc_pc, gc_ret, s3_created>>
    /\ UNCHANGED <<msgs, tasks, runs, lastRun, pc, r>>
    /\ UNCHANGED <<claimVars, agentVars, endVars, toolVars, s3Vars, blockVars>>

\* s3.py:94-96   __init__: a session, no client, a free lock
InitClientIdle ==
    /\ s3_client = NoClient
    /\ s3_client_lock = "free"
    /\ gc_pc = [c \in Callers |-> "idle"]
    /\ gc_ret = [c \in Callers |-> NoReturn]
    /\ s3_created = 0
    /\ s3_session = TRUE

\* ------------------------------------------------ AsyncBlocksAPI (client SDK)
MaxRequests == 2

TitleArgs == {Null, "", "t1"}
PropsArgs == {Null, "{}", "{a: 1}"}
ParentIdArgs == {Null, "b1"}
SortArgs == {Null, "0", "1"}

NoBlocksCall == [op |-> "none", a |-> Null, b |-> Null]

\* async_blocks.py:113-117, 141-145   the payload: a key for every argument
\* that is not None
Payload(key_a, a, key_b, b) ==
    {[key |-> key_a, value |-> a] : x \in {y \in {a} : y # Null}} \cup
    {[key |-> key_b, value |-> b] : x \in {y \in {b} : y # Null}}

\* async_blocks.py:118, 146   if not payload
PayloadEmptyNever(payload) == FALSE
PayloadEmpty(payload) == payload = {}

\* async_blocks.py:118-120, 146-148   ValueError on an empty payload, else
\* one PUT handed to the requester, which returns or raises
BlocksMethod(op, path, a, b, payload) ==
    /\ blocks_call' = [op |-> op, a |-> a, b |-> b]
    /\ IF PayloadEmpty(payload)
       THEN /\ blocks_result' = "ValueError"
            /\ UNCHANGED requests
       ELSE /\ Len(requests) < MaxRequests
            /\ requests' = Append(requests,
                   [method |-> "PUT", path |-> path, json_data |-> payload])
            /\ blocks_result' \in {"returned", "APIError"}
    /\ UNCHANGED <<msgs, tasks, runs, lastRun, pc, r>>
    /\ UNCHANGED <<claimVars, agentVars, endVars, toolVars, s3Vars, clientVars>>

\* async_blocks.py:94-120   AsyncBlocksAPI.update_properties
UpdateProperties(title, props) ==
    BlocksMethod("update_properties", "properties", title, props,
                 Payload("title", title, "props", props))

\* async_blocks.py:122-148   AsyncBlocksAPI.move
Move(parent_id, sort) ==
    BlocksMethod("move", "move", parent_id, sort,
                 Payload("parent_id", parent_id, "sort", sort))

InitBlocksIdle ==
    /\ blocks_call = NoBlocksCall
    /\ blocks_result = "none"
    /\ requests = <<>>

\* ---------------------------------------------------------------- Init
InitMsgs == { <<>>, <<Msg("s1", "processed")>> }

InitTasks ==
    { [s \in Sessions |->
          IF s = "s1" THEN <<Task(1, 1, "pending", "collect data")>> ELSE <<>>] }

InitLocals ==
    /\ session_id = [p \in Procs |-> NoSession]
    /\ messages = [p \in Procs |-> <<>>]
    /\ pending_message_ids = [p \in Procs |-> <<>>]
    /\ previous_messages = [p \in Procs |-> <<>>]
    /\ tx = [p \in Procs |-> {}]
    /\ db_open = [p \in Procs |-> 0]
    /\ r = [p \in Procs |-> "none"]
    /\ max_iterations = [p \in Procs |-> DefaultMaxIterations]
    /\ already_iterations = [p \in Procs |-> 0]
    /\ script = [p \in Procs |-> NoScript]
    /\ llm_calls = [p \in Procs |-> 0]
    /\ llm_return = [p \in Procs |-> <<>>]
    /\ llm_args = [p \in Procs |-> NoLLMArgs]
    /\ stop = [p \in Procs |-> "none"]
    /\ exc = [p \in Procs |-> "none"]
    /\ outcome = [p \in Procs |-> "none"]
    /\ rerun = [p \in Procs |-> FALSE]

\* no tool call applied yet
InitToolIdle ==
    /\ tool_call = NoCall
    /\ tool_result = NoErr

Init ==
    /\ msgs \in InitMsgs
    /\ tasks \in InitTasks
    /\ runs = 0
    /\ lastRun = [s \in Sessions |-> FALSE]
    /\ pc = [p \in Procs |-> "idle"]
    /\ InitLocals
    /\ InitToolIdle
    /\ InitS3Idle
    /\ InitBlocksIdle
    /\ InitClientIdle

\* ---------------------------------------------------------------- environment
\* a new message of session s is stored (status pending)
Arrive(s) ==
    /\ UNCHANGED <<toolVars, s3Vars, blockVars, clientVars>>
    /\ Len(msgs) < MaxMsgs
    /\ msgs' = Append(msgs, Msg(s, "pending"))
    /\ lastRun' = [lastRun EXCEPT ![s] = FALSE]
    /\ UNCHANGED <<tasks, runs, pc, r>>
    /\ UNCHANGED <<claimVars, agentVars, endVars>>

\* the signal process(session_id) is delivered: message.py:10-12
Start(p, s) ==
    /\ UNCHANGED <<toolVars, s3Vars, blockVars, clientVars>>
    /\ pc[p] \in {"idle", "done"}
    /\ runs < MaxRuns
    /\ runs' = runs + 1
    /\ pc' = [pc EXCEPT ![p] = "fetch"]
    /\ session_id' = [session_id EXCEPT ![p] = s]
    /\ messages' = [messages EXCEPT ![p] = <<>>]
    /\ pending_message_ids' = [pending_message_ids EXCEPT ![p] = <<>>]
    /\ previous_messages' = [previous_messages EXCEPT ![p] = <<>>]
    /\ tx' = [tx EXCEPT ![p] = {}]
    /\ db_open' = [db_open EXCEPT ![p] = DepthAfterEnter(db_open[p])]
    /\ r' = [r EXCEPT ![p] = "none"]
    /\ max_iterations' = [max_iterations EXCEPT ![p] = DefaultMaxIterations]
    /\ already_iterations' = [already_iterations EXCEPT ![p] = 0]
    /\ script' = [script EXCEPT ![p] = NoScript]
    /\ llm_calls' = [llm_calls EXCEPT ![p] = 0]
    /\ llm_return' = [llm_return EXCEPT ![p] = <<>>]
    /\ llm_args' = [llm_args EXCEPT ![p] = NoLLMArgs]
    /\ stop' = [stop EXCEPT ![p] = "none"]
    /\ exc' = [exc EXCEPT ![p] = "none"]
    /\ outcome' = [outcome EXCEPT ![p] = "none"]
    /\ rerun' = [rerun EXCEPT ![p] = FALSE]
    /\ UNCHANGED <<msgs, tasks, lastRun>>

\* ------------------------------------------- process_session_pending_message
\* the coroutine ends: its locals go out of scope (pending_message_ids is
\* kept as the record of what the invocation had claimed, llm_return as the
\* record of the latest response)
EndLocals(p) ==
    /\ messages' = [messages EXCEPT ![p] = <<>>]
    /\ previous_messages' = [previous_messages EXCEPT ![p] = <<>>]
    /\ script' = [script EXCEPT ![p] = NoScript]

\* message.py:13-18   open the transaction, fetch the pending messages
FetchMessages(p) ==
    /\ UNCHANGED <<toolVars, s3Vars, blockVars, clientVars>>
    /\ pc[p] = "fetch"
    /\ \/ /\ \A q \in Procs \ {p} :
                Locked(q) \cap Range(FetchSessionMessages(session_id[p], "pending")) = {}
          /\ messages' = [messages EXCEPT ![p] = FetchSessionMessages(session_id[p], "pending")]
          /\ r' = [r EXCEPT ![p] = "ok"]
          /\ rerun' = [rerun EXCEPT ![p] =
                          /\ lastRun[session_id[p]]
                          /\ FetchSessionMessages(session_id[p], "pending") = <<>>]
          /\ pc' = [pc EXCEPT ![p] = "mark"]
       \/ /\ r' = [r EXCEPT ![p] = "error"]
          /\ pc' = [pc EXCEPT ![p] = AfterFetchError]
          /\ UNCHANGED <<messages, rerun>>
    /\ UNCHANGED <<ledger, ctl, session_id, pending_message_ids, previous_messages, tx>>
    /\ UNCHANGED db_open
    /\ UNCHANGED <<agentVars, exc, outcome>>

\* message.py:19-22   mark the batch running, flush, remember the ids
MarkRunning(p) ==
    /\ UNCHANGED <<toolVars, s3Vars, blockVars, clientVars>>
    /\ pc[p] = "mark"
    /\ \/ /\ tx' = [tx EXCEPT ![p] = Range(messages[p])]
          /\ pending_message_ids' =
                 [pending_message_ids EXCEPT ![p] = pending_message_ids[p] \o messages[p]]
          /\ pc' = [pc EXCEPT ![p] = "fetch_prev"]
          /\ UNCHANGED <<exc, db_open>>
       \/ /\ messages[p] # <<>>
          /\ tx' = [tx EXCEPT ![p] = {}]
          /\ db_open' = [db_open EXCEPT ![p] = DepthAfterExit(db_open[p])]
          /\ exc' = [exc EXCEPT ![p] = "flush"]
          /\ pc' = [pc EXCEPT ![p] = "except"]
          /\ UNCHANGED pending_message_ids
    /\ UNCHANGED <<ledger, ctl, session_id, messages, previous_messages, r>>
    /\ UNCHANGED <<agentVars, outcome, rerun>>

\* message.py:23-37   fetch the context window before messages[0]
FetchPrevious(p) ==
    /\ UNCHANGED <<toolVars, s3Vars, blockVars, clientVars>>
    /\ pc[p] = "fetch_prev"
    /\ \/ /\ messages[p] = <<>>
          /\ tx' = [tx EXCEPT ![p] = {}]
          /\ db_open' = [db_open EXCEPT ![p] = DepthAfterExit(db_open[p])]
          /\ exc' = [exc EXCEPT ![p] = "index"]
          /\ pc' = [pc EXCEPT ![p] = "except"]
          /\ UNCHANGED <<previous_messages, r>>
       \/ /\ messages[p] # <<>>
          /\ previous_messages' = [previous_messages EXCEPT ![p] =
                 FetchPreviousMessages(session_id[p], WindowBefore(messages[p]),
                                       WindowLimit)]
          /\ r' = [r EXCEPT ![p] = "ok"]
          /\ pc' = [pc EXCEPT ![p] = "commit"]
          /\ UNCHANGED <<tx, exc, db_open>>
       \/ /\ messages[p] # <<>>
          /\ r' = [r EXCEPT ![p] = "error"]
          /\ pc' = [pc EXCEPT ![p] = "commit"]
          /\ UNCHANGED <<previous_messages, tx, exc, db_open>>
    /\ UNCHANGED <<ledger, ctl, session_id, messages, pending_message_ids>>
    /\ UNCHANGED <<agentVars, outcome, rerun>>

\* message.py:13-38   leaving the async with block (normally, or by the
\* return of line 18 or 29) commits the claim transaction
Commit(p) ==
    /\ UNCHANGED <<toolVars, s3Vars, blockVars, clientVars>>
    /\ pc[p] = "commit"
    /\ db_open' = [db_open EXCEPT ![p] = DepthAfterExit(db_open[p])]
    /\ \/ /\ r[p] = "ok"
          /\ msgs' = CommitTx(msgs, tx[p])
          /\ tx' = [tx EXCEPT ![p] = {}]
          /\ pc' = [pc EXCEPT ![p] = "call_agent"]
          /\ UNCHANGED <<outcome, lastRun, exc, messages, previous_messages>>
       \/ /\ r[p] = "error"
          /\ msgs' = CommitTx(msgs, tx[p])
          /\ tx' = [tx EXCEPT ![p] = {}]
          /\ pc' = [pc EXCEPT ![p] = "done"]
          /\ outcome' = [outcome EXCEPT ![p] = "returned"]
          /\ lastRun' = [lastRun EXCEPT ![session_id[p]] = FALSE]
          /\ messages' = [messages EXCEPT ![p] = <<>>]
          /\ previous_messages' = [previous_messages EXCEPT ![p] = <<>>]
          /\ UNCHANGED exc
       \/ /\ tx[p] # {}
          /\ tx' = [tx EXCEPT ![p] = {}]
          /\ exc' = [exc EXCEPT ![p] = "commit"]
          /\ pc' = [pc EXCEPT ![p] = "except"]
          /\ UNCHANGED <<msgs, outcome, lastRun, messages, previous_messages>>
    /\ UNCHANGED <<tasks, runs, session_id, pending_message_ids, r, rerun>>
    /\ UNCHANGED agentVars

\* message.py:40-46   roll the remembered ids back to pending, re-raise
Except(p) ==
    /\ UNCHANGED <<toolVars, s3Vars, blockVars, clientVars>>
    /\ pc[p] = "except"
    /\ msgs' = RollbackMessageStatusToPending(msgs, RollbackIds(p))
    /\ outcome' = [outcome EXCEPT ![p] = ExceptOutcome]
    /\ lastRun' = [lastRun EXCEPT ![session_id[p]] = FALSE]
    /\ pc' = [pc EXCEPT ![p] = "done"]
    /\ EndLocals(p)
    /\ tasks' = TasksAfterRollback(p)
    /\ UNCHANGED <<runs, session_id, pending_message_ids, tx, db_open, r, exc, rerun>>
    /\ UNCHANGED <<max_iterations, already_iterations, llm_calls, llm_return, stop>>
    /\ UNCHANGED llm_args

\* ---------------------------------------------------------- task_agent_curd
\* the invocation returns normally: task.py:42,65,74 return r, message.py:39
\* r = ..., and process_session_pending_message ends after line 39
Returned(p, why, res) ==
    /\ EndLocals(p)
    /\ stop' = [stop EXCEPT ![p] = why]
    /\ r' = [r EXCEPT ![p] = res]
    /\ pc' = [pc EXCEPT ![p] = "done"]
    /\ outcome' = [outcome EXCEPT ![p] = "returned"]
    /\ lastRun' = [lastRun EXCEPT ![session_id[p]] = (res = "ok")]

\* task.py:32-53   task_agent_curd(..., max_iterations = n):  fetch the current tasks in a transaction of its own, pack
\* the three sections, set already_iterations = 0
TaskAgentCurd(p, n) ==
    /\ UNCHANGED <<toolVars, s3Vars, blockVars, clientVars>>
    /\ pc[p] = "call_agent"
    /\ max_iterations' = [max_iterations EXCEPT ![p] = n]
    /\ already_iterations' = [already_iterations EXCEPT ![p] = 0]
    /\ \/ /\ \E s \in Scripts : script' = [script EXCEPT ![p] = s]
          /\ r' = [r EXCEPT ![p] = "ok"]
          /\ llm_args' = [llm_args EXCEPT ![p] = Packed(p)]
          /\ pc' = [pc EXCEPT ![p] = "agent_loop"]
          /\ UNCHANGED <<stop, exc, outcome, lastRun>>
          /\ UNCHANGED <<messages, previous_messages, llm_return>>
       \/ /\ Returned(p, "tasks_error", "error")
          /\ UNCHANGED <<exc, llm_return, llm_args>>
       \/ /\ exc' = [exc EXCEPT ![p] = "pack"]
          /\ pc' = [pc EXCEPT ![p] = "except"]
          /\ UNCHANGED <<r, stop, outcome, lastRun>>
          /\ UNCHANGED <<messages, previous_messages, script, llm_return, llm_args>>
    /\ UNCHANGED <<msgs, tasks, runs, session_id, pending_message_ids, tx, db_open, rerun>>
    /\ UNCHANGED llm_calls

\* task.py:54-67   the loop condition and one call of llm_complete
AgentLLM(p) ==
    /\ UNCHANGED <<toolVars, s3Vars, blockVars, clientVars>>
    /\ pc[p] = "agent_loop"
    /\ \/ /\ ~LoopCond(p)
          /\ Returned(p, "budget", r[p])
          /\ UNCHANGED <<llm_calls, llm_return, exc, llm_args>>
       \/ /\ LoopCond(p)
          /\ llm_calls[p] < MaxCalls
          /\ llm_calls' = [llm_calls EXCEPT ![p] = llm_calls[p] + 1]
          /\ llm_args' = [llm_args EXCEPT ![p].sent = TRUE]
          /\ \/ /\ ScriptAt(script[p], llm_calls[p] + 1).kind = "ok"
                /\ llm_return' = [llm_return EXCEPT ![p] =
                                      ScriptAt(script[p], llm_calls[p] + 1).tool_calls]
                /\ r' = [r EXCEPT ![p] = "ok"]
                /\ pc' = [pc EXCEPT ![p] = "agent_check"]
                /\ UNCHANGED <<stop, exc, outcome, lastRun>>
                /\ UNCHANGED <<messages, previous_messages, script>>
             \/ /\ ScriptAt(script[p], llm_calls[p] + 1).kind = "error"
                /\ Returned(p, "llm_error", "error")
                /\ UNCHANGED <<llm_return, exc>>
             \/ /\ ScriptAt(script[p], llm_calls[p] + 1).kind = "raise"
                /\ exc' = [exc EXCEPT ![p] = "llm"]
                /\ pc' = [pc EXCEPT ![p] = "except"]
                /\ UNCHANGED <<r, stop, outcome, lastRun>>
                /\ UNCHANGED <<messages, previous_messages, script, llm_return>>
    /\ UNCHANGED <<msgs, tasks, runs, session_id, pending_message_ids, tx, db_open, rerun>>
    /\ UNCHANGED <<max_iterations, already_iterations>>

\* task.py:68-74   no tool calls: break; otherwise: break as well (line 71);
\* lines 72-73 are never executed, so already_iterations stays as it is
AgentCheck(p) ==
    /\ UNCHANGED <<toolVars, s3Vars, blockVars, clientVars>>
    /\ pc[p] = "agent_check"
    /\ \/ /\ llm_return[p] = <<>>
          /\ Returned(p, "no_tool_calls", r[p])
       \/ /\ llm_return[p] # <<>>
          /\ Returned(p, "break", r[p])
    /\ UNCHANGED <<msgs, tasks, runs, session_id, pending_message_ids, tx, db_open, exc, rerun>>
    /\ UNCHANGED <<max_iterations, already_iterations, llm_calls, llm_return, llm_args>>

\* message.py:39   task_agent_curd is called with the default max_iterations
AgentStart(p) == TaskAgentCurd(p, DefaultMaxIterations)

\* ---------------------------------------------------------------- Next
Next ==
    \/ \E s \in Sessions : Arrive(s)
    \/ \E p \in Procs, s \in Sessions : Start(p, s)
    \/ \E p \in Procs : FetchMessages(p)
    \/ \E p \in Procs : MarkRunning(p)
    \/ \E p \in Procs : FetchPrevious(p)
    \/ \E p \in Procs : Commit(p)
    \/ \E p \in Procs : AgentStart(p)
    \/ \E p \in Procs : AgentLLM(p)
    \/ \E p \in Procs : AgentCheck(p)
    \/ \E p \in Procs : Except(p)

Spec == Init /\ [][Next]_vars

\* message.py:10-46   one step of invocation p: the event loop resumes every
\* coroutine that can go on, so an invocation is not left waiting for ever
Step(p) ==
    \/ FetchMessages(p) \/ MarkRunning(p) \/ FetchPrevious(p) \/ Commit(p)
    \/ AgentStart(p) \/ AgentLLM(p) \/ AgentCheck(p) \/ Except(p)

\* the process(session_id) signal for session s is delivered to a consumer
Deliver(s) == \E p \in Procs : Start(p, s)

\* the engine under repeated delivery: every invocation runs to its end and
\* the signal of every session keeps being delivered (as long as MaxRuns allows)
SpecLive ==
    /\ Init /\ [][Next]_vars
    /\ \A p \in Procs : WF_vars(Step(p))
    /\ \A s \in Sessions : WF_vars(Deliver(s))

\* ------------------------------------------------ task_agent_curd on its own
\* a caller has claimed a batch of k messages and calls task_agent_curd with
\* max_iterations = n
InitAgent ==
    /\ \E k \in 1..MaxMsgs : msgs = [i \in 1..k |-> Msg("s1", ClaimStatus)]
    /\ tasks \in InitTasks
    /\ runs = 1
    /\ lastRun = [s \in Sessions |-> FALSE]
    /\ pc = [p \in Procs |-> IF p = "p1" THEN "call_agent" ELSE "idle"]
    /\ session_id = [p \in Procs |-> IF p = "p1" THEN "s1" ELSE NoSession]
    /\ messages = [p \in Procs |-> IF p = "p1" THEN Ids ELSE <<>>]
    /\ pending_message_ids = messages
    /\ previous_messages = [p \in Procs |-> <<>>]
    /\ tx = [p \in Procs |-> {}]
    /\ db_open = [p \in Procs |-> 0]
    /\ r = [p \in Procs |-> IF p = "p1" THEN "ok" ELSE "none"]
    /\ max_iterations \in [Procs -> 0..MaxIterInput]
    /\ max_iterations["p2"] = DefaultMaxIterations
    /\ already_iterations = [p \in Procs |-> 0]
    /\ script = [p \in Procs |-> NoScript]
    /\ llm_calls = [p \in Procs |-> 0]
    /\ llm_return = [p \in Procs |-> <<>>]
    /\ llm_args = [p \in Procs |-> NoLLMArgs]
    /\ stop = [p \in Procs |-> "none"]
    /\ exc = [p \in Procs |-> "none"]
    /\ outcome = [p \in Procs |-> "none"]
    /\ rerun = [p \in Procs |-> FALSE]
    /\ InitToolIdle
    /\ InitS3Idle
    /\ InitBlocksIdle
    /\ InitClientIdle

AgentEnter(p) == TaskAgentCurd(p, max_iterations[p])

AgentStep(p) == AgentEnter(p) \/ AgentLLM(p) \/ AgentCheck(p) \/ Except(p)

NextAgent == \E p \in Procs : AgentStep(p)

SpecAgent == InitAgent /\ [][NextAgent]_vars

\* ------------------------------------------------ the Tool Pool on its own
MaxTasks == 2

\* the arguments a model may send: orders and task ids in and out of range,
\* a status and a description or neither, message indices in and out of the batch
OrderArgs == 0..(MaxTasks + 1)
TaskIdArgs == 1..(MaxTasks + 1)
StatusArgs == {Null, "running"}
DescriptionArgs == {Null, "d1"}
MessageIdsArgs == { <<0>>, <<0, 1>>, <<MaxMsgs>> }

\* the ledger holds a claimed batch of MaxMsgs messages of s1
InitToolsMsgs == [i \in 1..MaxMsgs |-> Msg("s1", ClaimStatus)]

InitTools ==
    /\ msgs = InitToolsMsgs
    /\ tasks \in InitTasks
    /\ runs = 0
    /\ lastRun = [s \in Sessions |-> FALSE]
    /\ pc = [p \in Procs |-> "idle"]
    /\ InitLocals
    /\ InitToolIdle
    /\ InitS3Idle
    /\ InitBlocksIdle
    /\ InitClientIdle

\* the claimed batch of session s
Batch(s) == FetchSessionMessages(s, ClaimStatus)

\* one tool call of a round of session s is applied
Apply(s, name, a) ==
    LET res == ApplyTool(Ledger, BuildCtx(Ledger, s, Batch(s)), name, a)
    IN  /\ tasks' = res.tasks
        /\ msgs' = res.msgs
        /\ tool_call' = [name |-> name, session |-> s, message_ids |-> a.message_ids]
        /\ tool_result' = res.err
        /\ UNCHANGED <<runs, lastRun, pc, r>>
        /\ UNCHANGED <<claimVars, agentVars, endVars, s3Vars, blockVars, clientVars>>

ApplyInsertTask(s) ==
    /\ Len(tasks["s1"]) + Len(tasks["s2"]) < MaxTasks
    /\ \E o \in OrderArgs, d \in DescriptionArgs \ {Null} :
          Apply(s, "insert_task", [NoArgs EXCEPT !.order = o, !.description = d])

ApplyUpdateTask(s) ==
    \E t \in TaskIdArgs, st \in StatusArgs, d \in DescriptionArgs :
        Apply(s, "update_task", [NoArgs EXCEPT !.task_id = t, !.status = st, !.description = d])

ApplyAppendMessagesToTask(s) ==
    \E t \in TaskIdArgs, ms \in MessageIdsArgs :
        Apply(s, "append_messages_to_task", [NoArgs EXCEPT !.task_id = t, !.message_ids = ms])

ApplyAppendMessagesToPlanningSection(s) ==
    \E ms \in MessageIdsArgs :
        Apply(s, "append_messages_to_planning_section", [NoArgs EXCEPT !.message_ids = ms])

ApplyFinish(s) == Apply(s, "finish", NoArgs)

NextTools ==
    \/ \E s \in Sessions : ApplyInsertTask(s)
    \/ \E s \in Sessions : ApplyUpdateTask(s)
    \/ \E s \in Sessions : ApplyAppendMessagesToTask(s)
    \/ \E s \in Sessions : ApplyAppendMessagesToPlanningSection(s)
    \/ \E s \in Sessions : ApplyFinish(s)

SpecTools == InitTools /\ [][NextTools]_vars

\* ------------------------------------------------------ S3Client on its own
InitS3 ==
    /\ msgs \in InitMsgs
    /\ tasks \in InitTasks
    /\ runs = 0
    /\ lastRun = [s \in Sessions |-> FALSE]
    /\ pc = [p \in Procs |-> "idle"]
    /\ InitLocals
    /\ InitToolIdle
    /\ InitS3Idle
    /\ InitBlocksIdle
    /\ InitClientIdle

NextS3 ==
    \/ \E key \in Keys : DownloadObject(key)
    \/ \E key \in Keys : UploadObject(key)
    \/ \E key \in Keys : DeleteObject(key)
    \/ \E key \in Keys : GetObjectMetadata(key)

SpecS3 == InitS3 /\ [][NextS3]_vars

\* --------------------------------------------- AsyncBlocksAPI on its own
InitBlocks ==
    /\ msgs \in InitMsgs
    /\ tasks \in InitTasks
    /\ runs = 0
    /\ lastRun = [s \in Sessions |-> FALSE]
    /\ pc = [p \in Procs |-> "idle"]
    /\ InitLocals
    /\ InitToolIdle
    /\ InitS3Idle
    /\ InitBlocksIdle
    /\ InitClientIdle

NextBlocks ==
    \/ \E title \in TitleArgs, props \in PropsArgs : UpdateProperties(title, props)
    \/ \E parent_id \in ParentIdArgs, sort \in SortArgs : Move(parent_id, sort)

SpecBlocks == InitBlocks /\ [][NextBlocks]_vars

\* ------------------------------------- callers of _get_client on one S3Client
InitClient ==
    /\ msgs \in InitMsgs
    /\ tasks \in InitTasks
    /\ runs = 0
    /\ lastRun = [s \in Sessions |-> FALSE]
    /\ pc = [p \in Procs |-> "idle"]
    /\ InitLocals
    /\ InitToolIdle
    /\ InitS3Idle
    /\ InitBlocksIdle
    /\ InitClientIdle

NextClient ==
    \/ \E c \in Callers : GetClient(c)
    \/ \E c \in Callers : LockAcquired(c)
    \/ \E c \in Callers : ClientCreated(c)
    \/ \E c \in Callers : ClientCreationFails(c)
    \/ Close

SpecClient == InitClient /\ [][NextClient]_vars

\* ================================================================ claims
Claimed(p) == Range(pending_message_ids[p])

\* the Decision Loop of invocation p is in flight
InFlight(p) == pc[p] \in {"call_agent", "agent_loop", "agent_check"}

\* a finish call is among the tool calls of a response
HasFinish(calls) == \E i \in 1..Len(calls) : calls[i] = "finish"

\* invocation p ends with this step
Ends(p) == pc[p] # "done" /\ pc'[p] = "done"

\* C1: no message is handed to two in-flight Decision Loops at once: the
\* batches of any two invocations whose Decision Loop is in flight are disjoint.
C1_AtMostOneActiveClaim ==
    \A p, q \in Procs :
        (p # q /\ InFlight(p) /\ InFlight(q)) => Claimed(p) \cap Claimed(q) = {}

\* C2: a message's processing_status changes only along pending -> running,
\* running -> processed, running -> pending; never pending -> processed, and
\* processed is terminal.
C2_StatusPath ==
    [][\A i \in 1..Len(msgs) :
          msgs'[i].st # msgs[i].st =>
              <<msgs[i].st, msgs'[i].st>> \in
                  { <<"pending", "running">>, <<"running", "processed">>,
                    <<"running", "pending">> }]_vars

\* a message was claimed, rolled back by a failed run and is claimed again,
\* next to a processed message that kept its status
C2_Witness ==
    \E p \in Procs :
        /\ pc[p] = "done"
        /\ outcome[p] = "raised"
        /\ \E i \in Claimed(p) : msgs[i].st = "running"
        /\ \E j \in 1..Len(msgs) : msgs[j].st = "processed"

\* C3: when the Decision Loop completes successfully for a claimed batch, every
\* message of the batch is processed when process_session_pending_message returns.
C3_ProcessedOnSuccess ==
    [][\A p \in Procs :
          (Ends(p) /\ outcome'[p] = "returned" /\ r'[p] = "ok"
              /\ stop'[p] \in {"no_tool_calls", "break", "budget"}) =>
              \A i \in Claimed(p) : msgs'[i].st = "processed"]_vars

\* C4: an exception raised by context packing or model invocation after a batch
\* was claimed makes the handler revert exactly the claimed messages to pending
\* and re-raise.
C4_RollbackAndReraise ==
    [][\A p \in Procs :
          (pc[p] = "except" /\ Ends(p) /\ exc[p] \in {"pack", "llm"}) =>
              /\ outcome'[p] = "raised"
              /\ Claimed(p) # {}
              /\ \A i \in 1..Len(msgs) :
                    msgs'[i] = IF i \in Claimed(p)
                               THEN [msgs[i] EXCEPT !.st = "pending"]
                               ELSE msgs[i]]_vars

\* a run whose model call or packing raised has ended: raised, batch pending
C4_Witness ==
    \E p \in Procs :
        /\ pc[p] = "done"
        /\ exc[p] \in {"pack", "llm"}
        /\ outcome[p] = "raised"
        /\ Claimed(p) # {}
        /\ \A i \in Claimed(p) : msgs[i].st = "pending"

\* C5: when the model completion call fails (an error Result or an exception),
\* the invocation ends by raising and its claimed messages are pending again.
C5_ModelFailurePropagates ==
    [][\A p \in Procs :
          (Ends(p) /\ (stop'[p] = "llm_error" \/ exc'[p] = "llm")) =>
              /\ outcome'[p] = "raised"
              /\ \A i \in Claimed(p) : msgs'[i].st = "pending"]_vars

\* the invocation found no pending message (the fetch succeeded, empty)
EmptyRun(p) == pc[p] \in {"mark", "fetch_prev", "except"} /\ messages[p] = <<>>

\* C6: an invocation that finds no pending messages raises no error, changes no
\* message or task state and does not invoke the Decision Loop.
C6_NoPendingIsNoOp ==
    [][\A p \in Procs :
          (EmptyRun(p) /\ pc'[p] # pc[p]) =>
              /\ msgs' = msgs
              /\ tasks' = tasks
              /\ ~InFlight(p)'
              /\ (pc'[p] = "done" => outcome'[p] = "returned")]_vars

\* C7: a second invocation right after a successful run, with nothing new
\* pending, leaves message state and task state as they were.
C7_RerunChangesNothing ==
    [][\A p \in Procs :
          (rerun[p] /\ pc[p] # "done" /\ pc'[p] # pc[p]) =>
              (msgs' = msgs /\ tasks' = tasks)]_vars

\* the second invocation has run to its end while the first run's batch exists
C7_Witness ==
    \E p \in Procs :
        /\ rerun[p]
        /\ pc[p] = "done"
        /\ \E i \in 1..Len(msgs) : msgs[i].sid = session_id[p] /\ msgs[i].st = ClaimStatus

\* the completion service answers tool calls in round 1 and throws in round 2
Round2Throws == <<RTools, RRaise, RFinish>>

\* C8: with a model that throws in round 2 of a 3-round loop, the run ends with
\* the task ledger as before the loop and every claimed message pending.
C8_Round2ThrowRollsBack ==
    [][\A p \in Procs :
          (Ends(p) /\ script[p] = Round2Throws
              /\ max_iterations[p] = DefaultMaxIterations) =>
              /\ tasks' = tasks
              /\ \A i \in Claimed(p) : msgs'[i].st = "pending"]_vars

\* C9: task_agent_curd makes at most max_iterations model calls, is never stuck
\* before its end, and a loop left by "no tool calls", by the break after a
\* response with tool calls (finish among them or not) or by the exhausted
\* budget ends without raising.
C9_BoundedLoop ==
    \A p \in Procs :
        /\ llm_calls[p] <= max_iterations[p]
        /\ (pc[p] \notin {"idle", "done"} => ENABLED AgentStep(p))
        /\ (pc[p] = "done" /\ stop[p] \in {"no_tool_calls", "break", "budget"}) =>
               (outcome[p] = "returned" /\ exc[p] = "none")

\* a loop given max_iterations >= 1 has ended on a response with a finish call
C9_Witness ==
    \E p \in Procs :
        /\ pc[p] = "done"
        /\ stop[p] = "break"
        /\ HasFinish(llm_return[p])
        /\ llm_calls[p] >= 1
        /\ outcome[p] = "returned"

\* C10: a round whose response has tool calls but no finish, with rounds still
\* remaining, is followed by another model invocation.
C10_ContinuesWhileBudget ==
    [][\A p \in Procs :
          (pc[p] = "agent_check" /\ pc'[p] # "agent_check"
              /\ llm_return[p] # <<>> /\ ~HasFinish(llm_return[p])
              /\ llm_calls[p] < max_iterations[p]) =>
              pc'[p] = "agent_loop"]_vars

\* C11: in each round with tool calls, every returned tool call is applied to
\* the ledger in the order returned: when the round is over the ledger is the
\* one the appliers produce from the calls, rejected calls skipped.
C11_RoundAppliesCalls ==
    [][\A p \in Procs :
          (pc[p] = "agent_check" /\ pc'[p] # "agent_check" /\ llm_return[p] # <<>>) =>
              Ledger' = ApplyCalls(Ledger, session_id[p], pending_message_ids[p],
                                   llm_return[p])]_vars

\* ------------------------------------------------------------ the appliers
\* the context of a round of session s
Ctx(s) == BuildCtx(Ledger, s, Batch(s))

\* the order values of a task list are exactly 1..len
Dense(ts) == {ts[i].order : i \in 1..Len(ts)} = 1..Len(ts)

\* C12: in every session the task order values are a permutation of
\* 1..len(tasks), and a successful insert_task at position p adds one task at
\* p, moves every task with order >= p up by one, keeps the others and leaves
\* the orders dense.
C12_DenseOrders ==
    \A s \in Sessions :
        /\ Dense(tasks[s])
        /\ \A o \in OrderArgs :
              LET ts == tasks[s]
                  res == InsertTask(Ledger, Ctx(s), [NoArgs EXCEPT !.order = o, !.description = "d1"])
                  ns == res.tasks[s]
              IN  res.err = NoErr =>
                      /\ Len(ns) = Len(ts) + 1
                      /\ Dense(ns)
                      /\ ns[Len(ns)].order = o
                      /\ \A i \in 1..Len(ts) :
                            ns[i].order = IF ts[i].order >= o THEN ts[i].order + 1
                                          ELSE ts[i].order

\* an insert_task at the head of a list has moved the task that was there
C12_Witness ==
    /\ tool_call.name = "insert_task"
    /\ tool_result = NoErr
    /\ \E s \in Sessions :
          /\ tool_call.session = s
          /\ Len(tasks[s]) >= 2
          /\ tasks[s][1].order = 2
          /\ tasks[s][Len(tasks[s])].order = 1

\* C13: insert_task accepts an order exactly when it lies in 1..len+1; a call
\* with another order is rejected and leaves the task list (and the rest of
\* the ledger) as it was.
C13_OrderRange ==
    \A s \in Sessions, o \in OrderArgs :
        LET res == InsertTask(Ledger, Ctx(s), [NoArgs EXCEPT !.order = o, !.description = "d1"])
        IN  /\ (res.err = NoErr) <=> (1 <= o /\ o <= Len(tasks[s]) + 1)
            /\ res.err # NoErr => (res.tasks = tasks /\ res.msgs = msgs)

\* an insert_task was rejected for its order
C13_Witness ==
    /\ tool_call.name = "insert_task"
    /\ tool_result = "InvalidOrder"
    /\ \E s \in Sessions : tool_call.session = s /\ Len(tasks[s]) >= 1

\* C14: every message has at most one row in the link table (one task or the
\* planning section), and an append_messages_to_task or
\* append_messages_to_planning_section call that names an already linked
\* message yields InvalidReference and leaves the links as they were.
C14_AtMostOneLink ==
    /\ \A i \in 1..Len(msgs) : Cardinality(msgs[i].link) <= 1
    /\ \A s \in Sessions, t \in TaskIdArgs, ms \in MessageIdsArgs :
          LET a == [NoArgs EXCEPT !.task_id = t, !.message_ids = ms]
              linked == \E k \in 1..Len(ms) :
                            /\ ms[k] < Len(Batch(s))
                            /\ msgs[Batch(s)[ms[k] + 1]].link # {}
          IN  linked =>
                  \A res \in { AppendMessagesToTask(Ledger, Ctx(s), a),
                               AppendMessagesToPlanningSection(Ledger, Ctx(s), a) } :
                      /\ res.err = "InvalidReference"
                      /\ \A i \in 1..Len(msgs) : res.msgs[i].link = msgs[i].link

\* a message linked to a task was named by an append to the planning section,
\* the call was rejected and the link is still the one to the task
C14_Witness ==
    /\ tool_call.name = "append_messages_to_planning_section"
    /\ tool_call.session = "s1"
    /\ tool_call.message_ids = <<0>>
    /\ tool_result = "InvalidReference"
    /\ \E t \in TaskIdArgs : msgs[Batch("s1")[1]].link = {TaskLink(t)}

\* the ids of the tasks of session s
TaskIds(s) == {tasks[s][i].id : i \in 1..Len(tasks[s])}

\* C15: update_task with a task_id that is not a task of the current session
\* fails with InvalidReference and changes nothing; with a valid task_id it
\* succeeds, sets the status and the description that were provided on that
\* task, and leaves its other fields, all other tasks and the messages alone.
C15_UpdateTask ==
    \A s \in Sessions, t \in TaskIdArgs, st \in StatusArgs, d \in DescriptionArgs :
        LET res == UpdateTask(Ledger, Ctx(s),
                              [NoArgs EXCEPT !.task_id = t, !.status = st, !.description = d])
        IN  /\ res.msgs = msgs
            /\ IF t \notin TaskIds(s)
               THEN res.err = "InvalidReference" /\ res.tasks = tasks
               ELSE /\ res.err = NoErr
                    /\ \A u \in Sessions :
                          /\ Len(res.tasks[u]) = Len(tasks[u])
                          /\ \A i \in 1..Len(tasks[u]) :
                                LET old == tasks[u][i]
                                IN  res.tasks[u][i] =
                                        IF u = s /\ old.id = t
                                        THEN Task(old.id, old.order,
                                                  IF st = Null THEN old.status ELSE st,
                                                  IF d = Null THEN old.description ELSE d)
                                        ELSE old

\* an update_task that carried a status and no description was applied (task 1
\* is running under its first description), and an update_task of a round of
\* s2 that named a task was then rejected
C15_Witness ==
    /\ tool_call.name = "update_task"
    /\ tool_call.session = "s2"
    /\ tool_result = "InvalidReference"
    /\ \E i \in 1..Len(tasks["s1"]) :
          /\ tasks["s1"][i].id = 1
          /\ tasks["s1"][i].status = "running"
          /\ tasks["s1"][i].description = "collect data"

\* ------------------------------------------------------- the engine, again
\* the completion service answers round 1 with update_task(1, running),
\* append_messages_to_task(1, every batch index), finish
ScenarioRound == <<RFinish>>

\* invocation p ends with this step, returning after a round with tool calls
EndsAfterRound(p) == Ends(p) /\ outcome'[p] = "returned" /\ stop'[p] = "break"

\* C16: a run on session s1 (task 1 exists) whose first round returns
\* update_task, append_messages_to_task and finish ends with task 1 running and
\* every message of the batch linked to task 1 and processed.
C16_ScenarioEndState ==
    [][\A p \in Procs :
          (EndsAfterRound(p) /\ script[p] = ScenarioRound /\ session_id[p] = "s1") =>
              /\ \E i \in 1..Len(tasks'["s1"]) :
                    tasks'["s1"][i].id = 1 /\ tasks'["s1"][i].status = "running"
              /\ \A m \in Claimed(p) :
                    msgs'[m].link = {TaskLink(1)} /\ msgs'[m].st = "processed"]_vars

\* C17: the batch is set to running and flushed before the first model call of
\* the run: at every model call made for a batch all its messages are running.
C17_RunningAtModelCall ==
    [][\A p \in Procs :
          (pc[p] = "agent_loop" /\ llm_calls'[p] = llm_calls[p] + 1) =>
              \A m \in Claimed(p) : msgs[m].st = ClaimStatus]_vars

\* C18: the id shown for a message is its zero-based position in the claimed
\* batch and a tool call naming that id affects exactly the message at that
\* position: after a round with append_messages_to_task the messages whose
\* shown ids the call named are linked to the task, the others are not.
C18_ShownIdNamesMessage ==
    [][\A p \in Procs :
          (EndsAfterRound(p) /\ "append_messages_to_task" \in Range(llm_return[p])) =>
              LET shown == PackCurrentMessageWithIds(pending_message_ids[p])
                  a == ToolCallArgs("append_messages_to_task", pending_message_ids[p])
              IN  \A k \in 1..Len(shown) :
                      (shown[k].id \in Range(a.message_ids)) <=>
                          (msgs'[shown[k].message].link = {TaskLink(a.task_id)})]_vars

\* a step of the claim phase or of the except block of invocation p
ClaimOrRollbackStep(p) ==
    pc[p] \in {"fetch", "mark", "fetch_prev", "commit", "except"} /\ pc'[p] # pc[p]

\* C19: no step of an invocation removes a task (the task ids of a session
\* never shrink), and the claim steps and the rollback leave all tasks as they
\* are.
C19_TasksNeverDeleted ==
    [][/\ \A s \in Sessions : TaskIds(s) \subseteq TaskIds(s)'
       /\ (\E p \in Procs : ClaimOrRollbackStep(p)) => tasks' = tasks]_vars

\* one invocation has claimed a batch and ended by rollback, another has
\* returned from its Decision Loop, and the task of s1 is still there
C19_Witness ==
    /\ \E p \in Procs :
          pc[p] = "done" /\ outcome[p] = "raised" /\ exc[p] = "llm" /\ Claimed(p) # {}
    /\ \E q \in Procs : pc[q] = "done" /\ outcome[q] = "returned" /\ stop[q] = "break"
    /\ 1 \in TaskIds("s1")

\* --------------------------------------------------------------- S3Client
\* C20: delete_object raises ClientError when the object to delete does not
\* exist: a call for a key the bucket does not hold, answered by the store with
\* a not-found ClientError, ends with that ClientError raised.
C20_DeleteMissingRaises ==
    (s3_call.op = "delete_object" /\ s3_call.answer \in NotFoundCodes) =>
        s3_result = "ClientError"

\* C21: get_object_metadata raises ClientError when the object does not exist:
\* a call for a key the bucket does not hold, answered by the store with a
\* not-found ClientError, ends with that ClientError raised.
C21_MetadataMissingRaises ==
    (s3_call.op = "get_object_metadata" /\ s3_call.answer \in NotFoundCodes) =>
        s3_result = "ClientError"

\* C22: update_properties called with title and props both None, and move
\* called with parent_id and sort both None, raise ValueError, and the call
\* sends no request: the requests handed to the requester are what they were.
C22_NoneArgsRaiseUnsent ==
    [][ (blocks_call'.op \in {"update_properties", "move"} /\
         blocks_call'.a = Null /\ blocks_call'.b = Null) =>
            (blocks_result' = "ValueError" /\ requests' = requests) ]_vars

\* C22 witness: move(parent_id=None, sort=None) raised ValueError after an
\* update_properties request had gone out, and that request is all that was sent.
C22_Witness ==
    /\ blocks_call = [op |-> "move", a |-> Null, b |-> Null]
    /\ blocks_result = "ValueError"
    /\ Len(requests) = 1
    /\ requests[1].path = "properties"

\* C23: the context is rebuilt from the ledger at the start of every round:
\* after a round with tool calls, no finish and rounds remaining, the task
\* section of the prompt for the next round is packed from the ledger that the
\* round's tool calls produced.
C23_RepackedEachRound ==
    [][\A p \in Procs :
          (pc[p] = "agent_check" /\ pc'[p] # "agent_check"
              /\ llm_return[p] # <<>> /\ ~HasFinish(llm_return[p])
              /\ llm_calls[p] < max_iterations[p]) =>
              llm_args'[p].prompt.tasks =
                  PackTaskSection(
                      ApplyCalls(Ledger, session_id[p], pending_message_ids[p],
                                 llm_return[p]).tasks[session_id[p]])]_vars

\* C24: no database transaction is open while a model invocation is in
\* progress: an invocation is inside at most one session context at a time,
\* and inside none (with no uncommitted write left) from the moment the
\* Decision Loop is invoked, through every model call, to the rollback and
\* the end of the invocation.
C24_NoTxAcrossModelCall ==
    \A p \in Procs :
        /\ db_open[p] \in {0, 1}
        /\ pc[p] \in {"call_agent", "agent_loop", "agent_check", "except", "done"} =>
               (db_open[p] = 0 /\ tx[p] = {})

\* C24 witness: p1's model invocation has just returned tool calls, its claim
\* is committed and its session context left, while p2 is inside its own.
C24_Witness ==
    /\ pc["p1"] = "agent_check"
    /\ llm_args["p1"].sent
    /\ pending_message_ids["p1"] # <<>>
    /\ \A i \in Range(pending_message_ids["p1"]) : msgs[i].st = "running"
    /\ db_open["p1"] = 0
    /\ db_open["p2"] = 1

\* C25: the context window of an invocation holds at most one message, the
\* most recent one of the session before the claimed batch; it shares no
\* message with the claimed batch, and no step of the invocation (claim,
\* rollback, or any other) changes the processing status of a window message.
C25_WindowReadOnly ==
    [][\A p \in Procs :
          (pc'[p] # pc[p] /\ <<previous_messages[p], previous_messages'[p]>> # <<(<<>>), (<<>>)>>) =>
              /\ Len(previous_messages'[p]) <= 1
              /\ \A w \in Range(previous_messages'[p]) :
                    /\ w \notin Range(pending_message_ids'[p])
                    /\ msgs[w].sid = session_id'[p]
                    /\ \A i \in Range(pending_message_ids'[p]) : w < i
                    /\ \A k \in (w + 1)..Len(msgs) :
                          msgs[k].sid = session_id'[p] =>
                              \E i \in Range(pending_message_ids'[p]) : i <= k
              /\ \A w \in Range(previous_messages[p]) \cup Range(previous_messages'[p]) :
                    msgs'[w].st = msgs[w].st]_vars

\* C25 witness: p1 claimed message 2 with the processed message 1 as its
\* window, the model call raised, and the rollback is about to run.
C25_Witness ==
    /\ pc["p1"] = "except"
    /\ exc["p1"] = "llm"
    /\ pending_message_ids["p1"] = <<2>>
    /\ previous_messages["p1"] = <<1>>
    /\ msgs[1].st = "processed"
    /\ msgs[2].st = "running"

\* C26: a flush or commit failure is treated like a model invocation failure:
\* the step in which the flush fails leaves the batch pending, and the
\* invocation ends with the failure raised to the caller and every message it
\* had claimed pending.
C26_PersistenceFailureRollsBack ==
    [][\A p \in Procs :
          /\ (pc[p] = "mark" /\ exc'[p] = "flush") =>
                 \A i \in Range(messages[p]) : msgs'[i].st = "pending"
          /\ (Ends(p) /\ exc'[p] \in {"flush", "commit"}) =>
                 /\ outcome'[p] = "raised"
                 /\ \A i \in Range(pending_message_ids'[p]) : msgs'[i].st = "pending"]_vars

\* C26 witness: the commit of p1's claim failed; the invocation ended raised
\* and the two messages it had claimed are pending.
C26_Witness ==
    /\ pc["p1"] = "done"
    /\ exc["p1"] = "commit"
    /\ outcome["p1"] = "raised"
    /\ pending_message_ids["p1"] = <<1, 2>>
    /\ \A i \in {1, 2} : msgs[i].st = "pending"

\* the calls of a response other than finish
WithoutFinish(calls) == SelectSeq(calls, LAMBDA c : c # "finish")

\* C27: a finish call has no effect on the ledger: a round's calls produce the
\* same tasks, links and message statuses with the finish call as without it;
\* the round in which it appears is the last one: the loop stops, the
\* invocation returns and no further model call is made.
C27_FinishOnlyStops ==
    [][\A p \in Procs :
          (pc[p] = "agent_check" /\ pc'[p] # "agent_check" /\ HasFinish(llm_return[p])) =>
              /\ ApplyCalls(Ledger, session_id[p], pending_message_ids[p], llm_return[p])
                   = ApplyCalls(Ledger, session_id[p], pending_message_ids[p],
                                WithoutFinish(llm_return[p]))
              /\ pc'[p] = "done"
              /\ stop'[p] = "break"
              /\ outcome'[p] = "returned"
              /\ llm_calls'[p] = llm_calls[p]]_vars

\* C27 witness: p1's first response held a finish call after two other calls;
\* the loop stopped after that one round and the invocation returned.
C27_Witness ==
    /\ pc["p1"] = "done"
    /\ HasFinish(llm_return["p1"])
    /\ Len(llm_return["p1"]) = 3
    /\ stop["p1"] = "break"
    /\ outcome["p1"] = "returned"
    /\ llm_calls["p1"] = 1
    /\ tasks[session_id["p1"]] # <<>>

C29_FiveToolsEveryCall ==
    /\ TASK_TOOLS = { "insert_task", "update_task", "append_messages_to_planning_section",
                      "append_messages_to_task", "finish" }
    /\ Cardinality(TASK_TOOLS) = 5
    /\ \A p \in Procs :
          llm_args[p].sent =>
              /\ Len(llm_args[p].tools) = 5
              /\ Range(llm_args[p].tools) = TASK_TOOLS

\* C29 witness: p1's model invocation was made, with the five schemas, and
\* has returned tool calls.
C29_Witness ==
    /\ pc["p1"] = "agent_check"
    /\ llm_calls["p1"] = 1
    /\ llm_args["p1"].sent
    /\ Len(llm_args["p1"].tools) = 5
    /\ llm_return["p1"] # <<>>

\* C30: for any interleaving of concurrent _get_client calls on one S3Client
\* at most one underlying client is ever created, at most one caller is
\* creating it at a time, and every caller that receives a client receives
\* that one client.
C30_SingleClient ==
    /\ s3_created <= 1
    /\ Cardinality({c \in Callers : gc_pc[c] = "creating"}) <= 1
    /\ \A c \in Callers : gc_pc[c] = "creating" => s3_client_lock = c
    /\ \A c \in Callers :
          gc_ret[c].client # NoClient =>
              /\ gc_ret[c].client = 1
              /\ s3_created = 1
    /\ \A c, d \in Callers :
          (gc_ret[c].client # NoClient /\ gc_ret[d].client # NoClient) =>
              gc_ret[c].client = gc_ret[d].client

\* C30 witness: three concurrent callers hold the same client: one created it,
\* one waited for the lock and found it at the second check, one found it at
\* the first check.
C30_Witness ==
    /\ s3_created = 1
    /\ gc_ret["c1"] = [client |-> 1, via |-> "created"]
    /\ gc_ret["c2"] = [client |-> 1, via |-> "double_check"]
    /\ gc_ret["c3"] = [client |-> 1, via |-> "first_check"]
    /\ \A c \in Callers : gc_pc[c] = "idle"

\* C31: whenever an invocation of process_session_pending_message ends, by
\* returning normally, by returning early on an error result or by raising,
\* none of the messages it claimed is left in status running.
C31_NoneLeftRunning ==
    [][\A p \in Procs :
          Ends(p) =>
              \A i \in Range(pending_message_ids'[p]) : msgs'[i].st # ClaimStatus]_vars

\* C32: under repeated delivery and a model that eventually succeeds every
\* pending message eventually becomes processed: a message whose signal was
\* delivered, that was claimed, and whose Decision Loop succeeded (the
\* invocation returned an ok Result) is processed from some point on.
C32_EventuallyProcessed ==
    \A i \in 1..MaxMsgs :
        (\E p \in Procs :
            /\ pc[p] = "done" /\ outcome[p] = "returned" /\ r[p] = "ok"
            /\ i \in Claimed(p))
        ~> (i <= Len(msgs) /\ msgs[i].st = "processed")

\* C33: the step that ends an invocation (its rollback; the code has no other
\* closing step) changes the status of only the messages the invocation
\* claimed: every other message, of the same session or of another, is after
\* the step what it was before it.
C33_EndTouchesOnlyClaimed ==
    [][\A p \in Procs :
          Ends(p) =>
              /\ Len(msgs') = Len(msgs)
              /\ \A i \in 1..Len(msgs) :
                    i \notin Claimed(p) => msgs'[i] = msgs[i]]_vars

\* C33 witness: p1 claimed message 1, message 2 of the same session arrived
\* while its Decision Loop ran, the model call raised and the rollback reset
\* message 1; message 2 is pending as it arrived.
C33_Witness ==
    /\ pc["p1"] = "done" /\ exc["p1"] = "llm" /\ outcome["p1"] = "raised"
    /\ pc["p2"] = "idle"
    /\ runs = 1
    /\ pending_message_ids["p1"] = <<1>>
    /\ Len(msgs) = 2
    /\ msgs[2].sid = session_id["p1"]
    /\ msgs[1].st = "pending"
    /\ msgs[2].st = "pending"

\* the fetch of invocation p's pending messages returned an error result
FetchFailed(p) ==
    /\ pc[p] \notin {"idle", "fetch", "done"}
    /\ r[p] = "error"
    /\ pending_message_ids[p] = <<>>

\* C34: if fetching the session's pending messages returns an error result,
\* the invocation returns without raising, changes no message status (nor a
\* task) and does not invoke the Decision Loop: the failing fetch and the one
\* step that follows it leave the ledger as it was, and that step ends the
\* invocation, returned, with no model call made.
C34_FetchErrorReturns ==
    [][\A p \in Procs :
          /\ (pc[p] = "fetch" /\ pc'[p] # "fetch" /\ r'[p] = "error") =>
                 (msgs' = msgs /\ tasks' = tasks)
          /\ (FetchFailed(p) /\ pc'[p] # pc[p]) =>
                 /\ msgs' = msgs /\ tasks' = tasks
                 /\ pc'[p] = "done"
                 /\ outcome'[p] = "returned"
                 /\ exc'[p] = "none"
                 /\ llm_calls'[p] = 0 /\ ~llm_args'[p].sent]_vars

\* C34 witness: p1's fetch for session s1 returned an error while a message
\* of s1 was pending; the invocation has returned and the message is pending.
C34_Witness ==
    /\ pc["p1"] = "done"
    /\ r["p1"] = "error"
    /\ pending_message_ids["p1"] = <<>>
    /\ outcome["p1"] = "returned"
    /\ llm_calls["p1"] = 0
    /\ session_id["p1"] = "s1"
    /\ \E i \in 1..Len(msgs) : msgs[i].sid = "s1" /\ msgs[i].st = "pending"

====
